---------------------------- MODULE Spec2Model ----------------------------
(***************************************************************************)
(* Model of mongotransf.py: main(origin, destination, collection) checks   *)
(* two Mongo URIs, derives a mongodump and a mongorestore command line,    *)
(* runs the two tools one after the other and prints "Done!".              *)
(*                                                                         *)
(* Strings are TLA+ strings; an optional value (Python None or a string)   *)
(* is the empty tuple or a one-element tuple.                              *)
(***************************************************************************)
EXTENDS Integers, Sequences, FiniteSets, TLC

VARIABLES
    origin_uri,          \* argument `origin` of main (a string)
    destination_uri,     \* argument `destination` of main (a string)
    collection,          \* argument `collection` of main (None or a string)
    cwd,                 \* os.getcwd()
    fs,                  \* paths that exist on the filesystem
    pc,                  \* position of main
    origin,              \* parse_uri(origin), once parsed
    destination,         \* parse_uri(destination), once parsed
    dump_path,           \* local dump_path
    mongodump_command,   \* local mongodump_command
    mongorestore_command,\* local mongorestore_command
    mongodump,           \* the mongodump child process
    mongorestore,        \* the mongorestore child process
    error,               \* the exception main ended with, if any
    events               \* history: prints, launches and exits, in order

vars == <<origin_uri, destination_uri, collection, cwd, fs, pc, origin,
          destination, dump_path, mongodump_command, mongorestore_command,
          mongodump, mongorestore, error, events>>

-----------------------------------------------------------------------------
(* Bounds *)

\* child exit statuses range over 0..MaxReturnCode
MaxReturnCode == 1

ReturnCodes == 0..MaxReturnCode

-----------------------------------------------------------------------------
(* Optional values *)

None == <<>>

Some(s) == <<s>>

\* str(x) as str.format applies it to a field: None prints as "None"
Str(x) == IF x = None THEN "None" ELSE x[1]

\* truth value of `if collection:`: None and "" are false
Truthy(x) == x # None /\ x[1] # ""

-----------------------------------------------------------------------------
(* String helpers (Python str methods) *)

CharAt(s, i) == SubSeq(s, i, i)

Positions(s, ch) == {i \in 1..Len(s) : CharAt(s, i) = ch}

\* s.startswith(prefix)
StartsWith(s, prefix) ==
    /\ Len(s) >= Len(prefix)
    /\ SubSeq(s, 1, Len(prefix)) = prefix

\* s.endswith(suffix)
EndsWith(s, suffix) ==
    /\ Len(s) >= Len(suffix)
    /\ SubSeq(s, Len(s) - Len(suffix) + 1, Len(s)) = suffix

\* s.count(ch) for a one-character ch
Count(s, ch) == Cardinality(Positions(s, ch))

\* s.partition(ch): <<before, separator, after>>, split at the first ch
Partition(s, ch) ==
    LET P == Positions(s, ch) IN
    IF P = {} THEN <<s, "", "">>
    ELSE LET i == CHOOSE k \in P : \A j \in P : k <= j
         IN <<SubSeq(s, 1, i - 1), ch, SubSeq(s, i + 1, Len(s))>>

\* s.rpartition(ch): split at the last ch
RPartition(s, ch) ==
    LET P == Positions(s, ch) IN
    IF P = {} THEN <<"", "", s>>
    ELSE LET i == CHOOSE k \in P : \A j \in P : k >= j
         IN <<SubSeq(s, 1, i - 1), ch, SubSeq(s, i + 1, Len(s))>>

\* s.split(ch): the sequence of pieces
RECURSIVE Split(_, _)
Split(s, ch) ==
    LET p == Partition(s, ch) IN
    IF p[2] = "" THEN <<s>> ELSE <<p[1]>> \o Split(p[3], ch)

Digits == "0123456789"

UpperCase == "ABCDEFGHIJKLMNOPQRSTUVWXYZ"

LowerCase == "abcdefghijklmnopqrstuvwxyz"

\* s.isdigit()
IsDigit(s) ==
    /\ Len(s) > 0
    /\ \A i \in 1..Len(s) : Positions(Digits, CharAt(s, i)) # {}

\* int(s) for a string of decimal digits
RECURSIVE ToInt(_)
ToInt(s) ==
    IF Len(s) = 0 THEN 0
    ELSE LET d == CHOOSE k \in 1..10 : CharAt(Digits, k) = CharAt(s, Len(s))
         IN 10 * ToInt(SubSeq(s, 1, Len(s) - 1)) + (d - 1)

\* s.lower()
RECURSIVE Lower(_)
Lower(s) ==
    IF Len(s) = 0 THEN ""
    ELSE LET c == CharAt(s, 1)
             P == Positions(UpperCase, c)
             l == IF P = {} THEN c ELSE CharAt(LowerCase, CHOOSE k \in P : TRUE)
         IN l \o Lower(SubSeq(s, 2, Len(s)))

-----------------------------------------------------------------------------
(* pymongo.uri_parser.parse_uri, as main uses it: the result dictionary or  *)
(* the exception raised.  Percent-decoding, options after '?', IPv6         *)
(* literals and socket paths are left out: no input here holds them.        *)

SCHEME == "mongodb://"

DEFAULT_PORT == 27017

MAX_PORT == 65535

BAD_DB_CHARS == {"/", " ", "\"", "$"}

\* a raised exception in place of a result
Raises(type) ==
    [raises |-> type, nodelist |-> <<>>, username |-> None,
     password |-> None, database |-> None]

\* parse_userinfo: [raises, user, passwd]
ParseUserinfo(userinfo) ==
    LET p == Partition(userinfo, ":") IN
    IF Count(userinfo, "@") > 0 \/ Count(userinfo, ":") > 1
    THEN [raises |-> "InvalidURI", user |-> "", passwd |-> ""]
    ELSE IF p[1] = ""
    THEN [raises |-> "InvalidURI", user |-> "", passwd |-> ""]
    ELSE [raises |-> "", user |-> p[1], passwd |-> p[3]]

\* parse_host: [raises, node], node = <<host, port>>
ParseHost(entity) ==
    LET p == Partition(entity, ":") IN
    IF Count(entity, ":") = 0
    THEN [raises |-> "", node |-> <<Lower(entity), DEFAULT_PORT>>]
    ELSE IF Count(entity, ":") > 1
    THEN [raises |-> "ValueError", node |-> <<"", 0>>]
    ELSE IF ~IsDigit(p[3]) \/ ToInt(p[3]) > MAX_PORT \/ ToInt(p[3]) <= 0
    THEN [raises |-> "ValueError", node |-> <<"", 0>>]
    ELSE [raises |-> "", node |-> <<Lower(p[1]), ToInt(p[3])>>]

\* split_hosts: [raises, nodes]; the first failing entity decides
SplitHosts(hosts) ==
    LET ents == Split(hosts, ",")
        bad  == {i \in 1..Len(ents) :
                    ents[i] = "" \/ ParseHost(ents[i]).raises # ""}
    IN IF bad = {}
       THEN [raises |-> "",
             nodes |-> [i \in 1..Len(ents) |-> ParseHost(ents[i]).node]]
       ELSE LET i == CHOOSE k \in bad : \A j \in bad : k <= j
            IN [raises |-> IF ents[i] = "" THEN "ConfigurationError"
                           ELSE ParseHost(ents[i]).raises,
                nodes |-> <<>>]

parse_uri(uri) ==
    IF ~StartsWith(uri, SCHEME) THEN Raises("InvalidURI")
    ELSE
    LET scheme_free == SubSeq(uri, Len(SCHEME) + 1, Len(uri))
        parts       == Partition(scheme_free, "/")
        host_part   == IF parts[1] = "" THEN parts[3] ELSE parts[1]
        path_part   == IF parts[1] = "" THEN "" ELSE parts[3]
        has_user    == Count(host_part, "@") > 0
        up          == RPartition(host_part, "@")
        userinfo    == ParseUserinfo(up[1])
        hosts       == IF has_user THEN up[3] ELSE host_part
        nodes       == SplitHosts(hosts)
        dbase_opts  == Partition(path_part, "?")
        dbase       == Partition(dbase_opts[1], ".")[1]
    IN
    IF scheme_free = "" THEN Raises("InvalidURI")
    ELSE IF path_part = "" /\ Count(host_part, "?") > 0 THEN Raises("InvalidURI")
    ELSE IF has_user /\ userinfo.raises # "" THEN Raises(userinfo.raises)
    ELSE IF Count(hosts, "/") > 0 THEN Raises("InvalidURI")
    ELSE IF nodes.raises # "" THEN Raises(nodes.raises)
    ELSE IF \E c \in BAD_DB_CHARS : Count(dbase, c) > 0 THEN Raises("InvalidURI")
    ELSE [raises   |-> "",
          nodelist |-> nodes.nodes,
          username |-> IF has_user THEN Some(userinfo.user) ELSE None,
          password |-> IF has_user THEN Some(userinfo.passwd) ELSE None,
          database |-> IF dbase = "" THEN None ELSE Some(dbase)]

-----------------------------------------------------------------------------
(* Templates and path construction *)

\* variant of PathJoin: plain concatenation, no separator
PathJoin_Concat(a, b) == a \o b

\* os.path.join(a, b) for two components
PathJoin(a, b) ==
    IF StartsWith(b, "/") THEN b
    ELSE IF a = "" \/ EndsWith(a, "/") THEN a \o b
    ELSE a \o "/" \o b

\* HOST_TEMPLATE.format(host=node[0], port=str(node[1]))
HOST_TEMPLATE(node) == node[1] \o ":" \o ToString(node[2])

\* MONGODUMP_TEMPLATE.format(...)
MONGODUMP_TEMPLATE(host, user, password, db, output) ==
    "mongodump -h " \o host \o " -u " \o user \o " -p " \o password
        \o " -d " \o db \o " -o " \o output \o "/"

\* MONGORESTORE_TEMPLATE.format(...)
MONGORESTORE_TEMPLATE(host, destination_db, user, password, folder, origin_db) ==
    "mongorestore -h " \o host \o " -d " \o destination_db \o " -u " \o user
        \o " -p " \o password \o " " \o folder \o "/" \o origin_db

\* the final value of mongodump_command
MongodumpCommand(o, path, coll) ==
    LET command == MONGODUMP_TEMPLATE(HOST_TEMPLATE(o.nodelist[1]),
                       Str(o.username), Str(o.password), Str(o.database), path)
    IN IF Truthy(coll) THEN command \o " -c " \o coll[1] ELSE command

\* variant of MongorestoreCommand: the restore source stays the database
\* directory when a collection is given
MongorestoreCommand_NoBson(o, d, path, coll) ==
    LET command == MONGORESTORE_TEMPLATE(HOST_TEMPLATE(d.nodelist[1]),
                       Str(d.database), Str(d.username), Str(d.password), path,
                       Str(o.database))
    IN IF Truthy(coll) THEN command \o " -c " \o coll[1] ELSE command

\* the final value of mongorestore_command
MongorestoreCommand(o, d, path, coll) ==
    LET command ==
            IF Truthy(coll)
            THEN MONGORESTORE_TEMPLATE(HOST_TEMPLATE(d.nodelist[1]),
                     Str(d.database), Str(d.username), Str(d.password), path,
                     o.database[1] \o "/" \o coll[1] \o ".bson")
            ELSE MONGORESTORE_TEMPLATE(HOST_TEMPLATE(d.nodelist[1]),
                     Str(d.database), Str(d.username), Str(d.password), path,
                     Str(o.database))
    IN IF Truthy(coll) THEN command \o " -c " \o coll[1] ELSE command

-----------------------------------------------------------------------------
(* Exceptions, output and child processes *)

NoError == [type |-> "", msg |-> ""]

Exception(msg) == [type |-> "Exception", msg |-> msg]

SchemeError == Exception("Both origin and destination must be Mongo URLs")

ParsingError == Exception("Mongo URL parsing error!")

PathExistsError(path) == Exception("Destination path " \o path \o " already exists!")

HostsError == Exception("Currently, we do not support more than one host")

\* "dump_" + None
ConcatTypeError ==
    [type |-> "TypeError", msg |-> "can only concatenate str (not \"NoneType\") to str"]

\* main is left by an exception: nothing after the raise runs
Raise(e) ==
    /\ pc' = "raised"
    /\ error' = e

Printed(text) == [kind |-> "print", text |-> text]

Launched(command) == [kind |-> "launch", text |-> command]

Exited(command) == [kind |-> "exit", text |-> command]

NoProcess == [state |-> "none", args |-> "", returncode |-> 0]

\* subprocess.Popen(command, shell=True, stdout=subprocess.PIPE)
Popen(command) == [state |-> "running", args |-> command, returncode |-> 0]

NoParse == Raises("")

-----------------------------------------------------------------------------
(* Inputs *)

Uris ==
    { "mongodb://u1:p1@a:27017/foo",
      "mongodb://u2:p2@b:27017/bar",
      "mongodb://A:027017/foo",
      "mongodb://u1:p1@a:27017",
      "mongodb://u1:p1@a:27017,c:27018/foo",
      "mongodb://u1:p1@a:27017,c:27018",
      "mongodb://u1:p1:x@a:27017/foo",
      "mongodb://",
      "http://u1:p1@a:27017/foo" }

\* parse_uri(uri) of every input, computed once
ParsedUris == [uri \in Uris |-> parse_uri(uri)]

Collections == {None, Some(""), Some("users")}

Cwds == {"/", "/work"}

Paths == {"/dump_foo", "/work/dump_foo"}

Init ==
    /\ origin_uri \in Uris
    /\ destination_uri \in Uris
    /\ collection \in Collections
    /\ cwd \in Cwds
    /\ fs \in SUBSET Paths
    /\ pc = "check_schemes"
    /\ origin = NoParse
    /\ destination = NoParse
    /\ dump_path = ""
    /\ mongodump_command = ""
    /\ mongorestore_command = ""
    /\ mongodump = NoProcess
    /\ mongorestore = NoProcess
    /\ error = NoError
    /\ events = <<>>

-----------------------------------------------------------------------------
(* main, statement by statement *)

\* variant of CheckSchemes: raises only when neither string has the scheme
CheckSchemes_Or ==
    /\ pc = "check_schemes"
    /\ IF ~(StartsWith(origin_uri, "mongodb://")
            \/ StartsWith(destination_uri, "mongodb://"))
       THEN Raise(SchemeError)
       ELSE pc' = "parse" /\ UNCHANGED error
    /\ UNCHANGED <<origin_uri, destination_uri, collection, cwd, fs, origin,
                   destination, dump_path, mongodump_command,
                   mongorestore_command, mongodump, mongorestore, events>>

\* lines 35-37
CheckSchemes ==
    /\ pc = "check_schemes"
    /\ IF ~(StartsWith(origin_uri, "mongodb://")
            /\ StartsWith(destination_uri, "mongodb://"))
       THEN Raise(SchemeError)
       ELSE pc' = "parse" /\ UNCHANGED error
    /\ UNCHANGED <<origin_uri, destination_uri, collection, cwd, fs, origin,
                   destination, dump_path, mongodump_command,
                   mongorestore_command, mongodump, mongorestore, events>>

\* lines 40-44: origin is parsed first; only InvalidURI is caught
ParseURIs ==
    /\ pc = "parse"
    /\ LET o == ParsedUris[origin_uri]
           d == ParsedUris[destination_uri]
           raised == IF o.raises # "" THEN o.raises ELSE d.raises
       IN IF raised = "InvalidURI"
          THEN Raise(ParsingError) /\ UNCHANGED <<origin, destination>>
          ELSE IF raised # ""
          THEN /\ Raise([type |-> raised, msg |-> ""])
               /\ UNCHANGED <<origin, destination>>
          ELSE /\ origin' = o
               /\ destination' = d
               /\ pc' = "dump_path"
               /\ UNCHANGED error
    /\ UNCHANGED <<origin_uri, destination_uri, collection, cwd, fs, dump_path,
                   mongodump_command, mongorestore_command, mongodump,
                   mongorestore, events>>

\* variant of CheckDumpPath: an existing dump directory is not refused
CheckDumpPath_NoExistsCheck ==
    /\ pc = "dump_path"
    /\ IF origin.database = None
       THEN Raise(ConcatTypeError) /\ UNCHANGED dump_path
       ELSE /\ dump_path' = PathJoin(cwd, "dump_" \o origin.database[1])
            /\ pc' = "check_hosts"
            /\ UNCHANGED error
    /\ UNCHANGED <<origin_uri, destination_uri, collection, cwd, fs, origin,
                   destination, mongodump_command, mongorestore_command,
                   mongodump, mongorestore, events>>

\* lines 47-52
CheckDumpPath ==
    /\ pc = "dump_path"
    /\ IF origin.database = None
       THEN Raise(ConcatTypeError) /\ UNCHANGED dump_path
       ELSE LET dump_folder == "dump_" \o origin.database[1]
                path == PathJoin(cwd, dump_folder)
            IN /\ dump_path' = path
               /\ IF path \in fs
                  THEN Raise(PathExistsError(path))
                  ELSE pc' = "check_hosts" /\ UNCHANGED error
    /\ UNCHANGED <<origin_uri, destination_uri, collection, cwd, fs, origin,
                   destination, mongodump_command, mongorestore_command,
                   mongodump, mongorestore, events>>

\* lines 55-56
CheckHosts ==
    /\ pc = "check_hosts"
    /\ IF Len(origin.nodelist) # 1 \/ Len(destination.nodelist) # 1
       THEN Raise(HostsError)
       ELSE pc' = "build" /\ UNCHANGED error
    /\ UNCHANGED <<origin_uri, destination_uri, collection, cwd, fs, origin,
                   destination, dump_path, mongodump_command,
                   mongorestore_command, mongodump, mongorestore, events>>

\* lines 59-102
BuildCommands ==
    /\ pc = "build"
    /\ mongodump_command' = MongodumpCommand(origin, dump_path, collection)
    /\ mongorestore_command' =
           MongorestoreCommand(origin, destination, dump_path, collection)
    /\ pc' = "print_mongodump_command"
    /\ UNCHANGED <<origin_uri, destination_uri, collection, cwd, fs, origin,
                   destination, dump_path, mongodump, mongorestore, error,
                   events>>

\* print(text), then on to the next statement
PrintStep(here, text, next) ==
    /\ pc = here
    /\ events' = Append(events, Printed(text))
    /\ pc' = next
    /\ UNCHANGED <<origin_uri, destination_uri, collection, cwd, fs, origin,
                   destination, dump_path, mongodump_command,
                   mongorestore_command, mongodump, mongorestore, error>>

\* variant of PrintMongodumpCommand: the restore command is printed instead
PrintMongodumpCommand_Wrong ==
    PrintStep("print_mongodump_command", mongorestore_command,
              "print_mongorestore_command")

\* line 105
PrintMongodumpCommand ==
    PrintStep("print_mongodump_command", mongodump_command,
              "print_mongorestore_command")

\* line 106
PrintMongorestoreCommand ==
    PrintStep("print_mongorestore_command", mongorestore_command,
              "print_importing")

\* line 108
PrintImporting ==
    PrintStep("print_importing", "** Importing from origin **", "popen_mongodump")

\* lines 111-113
PopenMongodump ==
    /\ pc = "popen_mongodump"
    /\ mongodump' = Popen(mongodump_command)
    /\ events' = Append(events, Launched(mongodump_command))
    /\ pc' = "wait_mongodump"
    /\ UNCHANGED <<origin_uri, destination_uri, collection, cwd, fs, origin,
                   destination, dump_path, mongodump_command,
                   mongorestore_command, mongorestore, error>>

\* variant of WaitMongodump: does not block while the child runs (poll())
WaitMongodump_NoWait ==
    /\ pc = "wait_mongodump"
    /\ mongodump.state \in {"running", "exited"}
    /\ pc' = "print_exporting"
    /\ UNCHANGED <<origin_uri, destination_uri, collection, cwd, fs, origin,
                   destination, dump_path, mongodump_command,
                   mongorestore_command, mongodump, mongorestore, error,
                   events>>

\* variant of WaitMongodump: gives up on a child that never exits and goes
\* on (wait(timeout=...) with the expiry ignored)
WaitMongodump_Timeout ==
    /\ pc = "wait_mongodump"
    /\ mongodump.state \in {"blocked", "exited"}
    /\ pc' = "print_exporting"
    /\ UNCHANGED <<origin_uri, destination_uri, collection, cwd, fs, origin,
                   destination, dump_path, mongodump_command,
                   mongorestore_command, mongodump, mongorestore, error,
                   events>>

\* line 116: wait() returns once the child has exited; the status is dropped
WaitMongodump ==
    /\ pc = "wait_mongodump"
    /\ mongodump.state = "exited"
    /\ pc' = "print_exporting"
    /\ UNCHANGED <<origin_uri, destination_uri, collection, cwd, fs, origin,
                   destination, dump_path, mongodump_command,
                   mongorestore_command, mongodump, mongorestore, error,
                   events>>

\* line 118
PrintExporting ==
    PrintStep("print_exporting", "** Exporting to destination **",
              "popen_mongorestore")

\* lines 121-123
PopenMongorestore ==
    /\ pc = "popen_mongorestore"
    /\ mongorestore' = Popen(mongorestore_command)
    /\ events' = Append(events, Launched(mongorestore_command))
    /\ pc' = "wait_mongorestore"
    /\ UNCHANGED <<origin_uri, destination_uri, collection, cwd, fs, origin,
                   destination, dump_path, mongodump_command,
                   mongorestore_command, mongodump, error>>

\* variant of WaitMongorestore: a non-zero exit status raises
\* (check_call in place of Popen and wait)
WaitMongorestore_CheckStatus ==
    /\ pc = "wait_mongorestore"
    /\ mongorestore.state = "exited"
    /\ IF mongorestore.returncode # 0
       THEN Raise([type |-> "CalledProcessError", msg |-> mongorestore.args])
       ELSE pc' = "print_done" /\ UNCHANGED error
    /\ UNCHANGED <<origin_uri, destination_uri, collection, cwd, fs, origin,
                   destination, dump_path, mongodump_command,
                   mongorestore_command, mongodump, mongorestore, events>>

\* line 125
WaitMongorestore ==
    /\ pc = "wait_mongorestore"
    /\ mongorestore.state = "exited"
    /\ pc' = "print_done"
    /\ UNCHANGED <<origin_uri, destination_uri, collection, cwd, fs, origin,
                   destination, dump_path, mongodump_command,
                   mongorestore_command, mongodump, mongorestore, error,
                   events>>

\* line 127, and the return of main
PrintDone == PrintStep("print_done", "Done!", "returned")

-----------------------------------------------------------------------------
(* The child processes (the environment of main) *)

\* the mongodump child terminates with some exit status
MongodumpExits ==
    /\ mongodump.state = "running"
    /\ \E rc \in ReturnCodes :
           mongodump' = [mongodump EXCEPT !.state = "exited", !.returncode = rc]
    /\ events' = Append(events, Exited(mongodump.args))
    /\ UNCHANGED <<origin_uri, destination_uri, collection, cwd, fs, pc,
                   origin, destination, dump_path, mongodump_command,
                   mongorestore_command, mongorestore, error>>

\* the mongodump child stops for good without terminating (its stdout pipe,
\* which main never reads, is full; or the server never answers)
MongodumpBlocks ==
    /\ mongodump.state = "running"
    /\ mongodump' = [mongodump EXCEPT !.state = "blocked"]
    /\ UNCHANGED <<origin_uri, destination_uri, collection, cwd, fs, pc,
                   origin, destination, dump_path, mongodump_command,
                   mongorestore_command, mongorestore, error, events>>

MongorestoreExits ==
    /\ mongorestore.state = "running"
    /\ \E rc \in ReturnCodes :
           mongorestore' =
               [mongorestore EXCEPT !.state = "exited", !.returncode = rc]
    /\ events' = Append(events, Exited(mongorestore.args))
    /\ UNCHANGED <<origin_uri, destination_uri, collection, cwd, fs, pc,
                   origin, destination, dump_path, mongodump_command,
                   mongorestore_command, mongodump, error>>

MongorestoreBlocks ==
    /\ mongorestore.state = "running"
    /\ mongorestore' = [mongorestore EXCEPT !.state = "blocked"]
    /\ UNCHANGED <<origin_uri, destination_uri, collection, cwd, fs, pc,
                   origin, destination, dump_path, mongodump_command,
                   mongorestore_command, mongodump, error, events>>

-----------------------------------------------------------------------------

\* one statement of main
Main ==
    \/ CheckSchemes
    \/ ParseURIs
    \/ CheckDumpPath
    \/ CheckHosts
    \/ BuildCommands
    \/ PrintMongodumpCommand
    \/ PrintMongorestoreCommand
    \/ PrintImporting
    \/ PopenMongodump
    \/ WaitMongodump
    \/ PrintExporting
    \/ PopenMongorestore
    \/ WaitMongorestore
    \/ PrintDone

Next ==
    \/ Main
    \/ MongodumpExits
    \/ MongodumpBlocks
    \/ MongorestoreExits
    \/ MongorestoreBlocks

Spec == Init /\ [][Next]_vars

\* main is a sequential program that keeps running; a running child sooner
\* or later either terminates or stops for good
FairSpec ==
    /\ Spec
    /\ WF_vars(Main)
    /\ WF_vars(MongodumpExits \/ MongodumpBlocks)
    /\ WF_vars(MongorestoreExits \/ MongorestoreBlocks)

-----------------------------------------------------------------------------
(* Vocabulary of the properties, stated on the inputs and the history *)

PastValidation ==
    pc \notin {"check_schemes", "parse", "dump_path", "check_hosts", "raised"}

HasScheme(uri) == StartsWith(uri, "mongodb://")

BadScheme == ~HasScheme(origin_uri) \/ ~HasScheme(destination_uri)

BothParse ==
    /\ ParsedUris[origin_uri].raises = ""
    /\ ParsedUris[destination_uri].raises = ""

MultiHost ==
    \/ Len(ParsedUris[origin_uri].nodelist) > 1
    \/ Len(ParsedUris[destination_uri].nodelist) > 1

\* the path of entry `name` of directory `dir`
Under(dir, name) ==
    (IF EndsWith(dir, "/") THEN SubSeq(dir, 1, Len(dir) - 1) ELSE dir)
        \o "/" \o name

DumpDirExists ==
    /\ ParsedUris[origin_uri].database # None
    /\ Under(cwd, "dump_" \o ParsedUris[origin_uri].database[1]) \in fs

\* some validation of the run fails
FailsValidation ==
    \/ BadScheme
    \/ ~BothParse
    \/ MultiHost
    \/ DumpDirExists

\* a ConnectionSpec with every field present
Complete(c) ==
    /\ Len(c.nodelist) = 1
    /\ c.username # None
    /\ c.password # None
    /\ c.database # None

Prints == SelectSeq(events, LAMBDA e : e.kind = "print")

Launches(tool) ==
    SelectSeq(events, LAMBDA e : e.kind = "launch" /\ StartsWith(e.text, tool \o " "))

Exits(tool) ==
    SelectSeq(events, LAMBDA e : e.kind = "exit" /\ StartsWith(e.text, tool \o " "))

\* number of places where `sub` occurs in `s`
Occurrences(s, sub) ==
    Cardinality({i \in 1..Len(s) :
        i + Len(sub) - 1 <= Len(s) /\ SubSeq(s, i, i + Len(sub) - 1) = sub})

DonePrinted == \E i \in 1..Len(events) : events[i] = Printed("Done!")

-----------------------------------------------------------------------------
(* C1 *)

\* C1: the restore child is launched only after the dump child was launched
\* and has exited; the two children are never alive together.
C1_RestoreAfterDumpExit ==
    /\ mongorestore.state # "none" => mongodump.state = "exited"
    /\ ~(mongodump.state \in {"running", "blocked"}
         /\ mongorestore.state \in {"running", "blocked"})
    /\ \A i \in 1..Len(events) :
           (events[i].kind = "launch" /\ StartsWith(events[i].text, "mongorestore "))
           => \E j \in 1..(i - 1) :
                  /\ events[j].kind = "exit"
                  /\ StartsWith(events[j].text, "mongodump ")
                  /\ \E k \in 1..(j - 1) :
                         /\ events[k].kind = "launch"
                         /\ StartsWith(events[k].text, "mongodump ")

C1_Witness ==
    /\ mongorestore.state = "running"
    /\ mongodump.state = "exited"

-----------------------------------------------------------------------------
(* C2 *)

\* C2: in a run that fails a validation no command line is printed, no
\* command is built and neither child is ever launched.
C2_NothingOnFailedValidation ==
    FailsValidation =>
        /\ events = <<>>
        /\ mongodump = NoProcess
        /\ mongorestore = NoProcess
        /\ mongodump_command = ""
        /\ mongorestore_command = ""
        /\ ~PastValidation

C2_Witness ==
    /\ pc = "raised"
    /\ DumpDirExists
    /\ error = PathExistsError(dump_path)
    /\ events = <<>>

-----------------------------------------------------------------------------
(* C3 *)

\* C3: once validation has passed, whatever the exit statuses of the two
\* children, the restore is launched after the dump exits and the run
\* returns normally with "Done!" as its last output.
C3_DoneWhateverTheStatus ==
    /\ \A rc \in ReturnCodes :
           (mongodump.state = "exited" /\ mongodump.returncode = rc)
               ~> (mongorestore.state # "none")
    /\ \A rc1 \in ReturnCodes : \A rc2 \in ReturnCodes :
           (/\ mongodump.state = "exited" /\ mongodump.returncode = rc1
            /\ mongorestore.state = "exited" /\ mongorestore.returncode = rc2)
               ~> (/\ pc = "returned"
                   /\ error = NoError
                   /\ events[Len(events)] = Printed("Done!"))
    /\ [](mongodump.state # "none" => (error = NoError /\ pc # "raised"))

C3_Witness ==
    /\ pc = "returned"
    /\ mongodump.returncode # 0
    /\ mongorestore.returncode # 0
    /\ events[Len(events)] = Printed("Done!")

-----------------------------------------------------------------------------
(* C4 *)

\* C4: when both URIs have the scheme and parse and one of them lists two or
\* more hosts, the run is rejected with the unsupported-topology error
\* whatever the filesystem holds.
C4_MultiHostAlwaysHostsError ==
    (~BadScheme /\ BothParse /\ MultiHost /\ pc \notin {"check_schemes", "parse"})
        => (pc \in {"dump_path", "check_hosts"} \/ (pc = "raised" /\ error = HostsError))

-----------------------------------------------------------------------------
(* C5 *)

\* C5: when either string lacks the mongodb:// prefix the run aborts with the
\* invalid-input error, whatever the other string and the filesystem are.
C5_BadSchemeRejectedFirst ==
    (BadScheme /\ pc # "check_schemes")
        => (pc = "raised" /\ error = SchemeError /\ origin = NoParse)

C5_Witness ==
    /\ pc = "raised"
    /\ error = SchemeError
    /\ HasScheme(origin_uri)
    /\ ~HasScheme(destination_uri)
    /\ Len(ParsedUris[origin_uri].nodelist) > 1
    /\ fs # {}

-----------------------------------------------------------------------------
(* C6 *)

\* C6: with a non-empty collection c the dump command is the no-collection
\* dump command followed by " -c " c, and the restore command reads from
\* <dump path>/<origin database>/<c>.bson and ends with " -c " c; the suffix
\* occurs once in each command.
C6_CollectionSuffix ==
    (PastValidation /\ pc # "build" /\ Truthy(collection)) =>
        LET c == collection[1]
            suffix == " -c " \o c
        IN /\ mongodump_command
                  = MongodumpCommand(origin, dump_path, None) \o suffix
           /\ mongodump_command
                  = MongodumpCommand(origin, dump_path, Some("")) \o suffix
           /\ EndsWith(mongorestore_command,
                  " " \o dump_path \o "/" \o origin.database[1] \o "/" \o c
                      \o ".bson" \o suffix)
           /\ Occurrences(mongodump_command, " -c ") = 1
           /\ Occurrences(mongorestore_command, " -c ") = 1
           /\ Occurrences(mongorestore_command, ".bson") = 1

C6_Witness ==
    /\ pc = "returned"
    /\ collection = Some("users")
    /\ EndsWith(mongodump_command, "/dump_foo/ -c users")
    /\ EndsWith(mongorestore_command, "/dump_foo/foo/users.bson -c users")

-----------------------------------------------------------------------------
(* C7 *)

\* "<host>:<port>" of a ConnectionSpec
HostPort(c) == c.nodelist[1][1] \o ":" \o ToString(c.nodelist[1][2])

\* C7: without a collection (unset or empty) the two commands are the fixed
\* command lines over the origin fields, resp. the destination fields and
\* the origin database, with no -c suffix; the dump path and the dump
\* command are determined by the origin (and the working directory) alone.
C7_CommandsWithoutCollection ==
    (/\ PastValidation /\ pc # "build" /\ ~Truthy(collection)
     /\ Complete(origin) /\ Complete(destination)) =>
        LET path == Under(cwd, "dump_" \o origin.database[1]) IN
        /\ dump_path = path
        /\ mongodump_command =
               "mongodump -h " \o HostPort(origin)
                   \o " -u " \o origin.username[1]
                   \o " -p " \o origin.password[1]
                   \o " -d " \o origin.database[1]
                   \o " -o " \o path \o "/"
        /\ mongorestore_command =
               "mongorestore -h " \o HostPort(destination)
                   \o " -d " \o destination.database[1]
                   \o " -u " \o destination.username[1]
                   \o " -p " \o destination.password[1]
                   \o " " \o path \o "/" \o origin.database[1]
        /\ Occurrences(mongodump_command, " -c ") = 0
        /\ Occurrences(mongorestore_command, " -c ") = 0

C7_Witness ==
    /\ pc = "returned"
    /\ collection = Some("")
    /\ cwd = "/work"
    /\ mongodump_command
           = "mongodump -h a:27017 -u u1 -p p1 -d foo -o /work/dump_foo/"
    /\ mongorestore_command
           = "mongorestore -h b:27017 -d bar -u u2 -p p2 /work/dump_foo/foo"

-----------------------------------------------------------------------------
(* C8 *)

\* the events of a complete run, in order
ExpectedEvents ==
    << Printed(mongodump_command),
       Printed(mongorestore_command),
       Printed("** Importing from origin **"),
       Launched(mongodump_command),
       Exited(mongodump_command),
       Printed("** Exporting to destination **"),
       Launched(mongorestore_command),
       Exited(mongorestore_command),
       Printed("Done!") >>

\* C8: in a run that passes validation the events happen once each in the
\* fixed order; the output is two command lines, two banners and "Done!",
\* and nothing follows "Done!".
C8_EventOrder ==
    /\ Len(events) <= Len(ExpectedEvents)
    /\ events = SubSeq(ExpectedEvents, 1, Len(events))
    /\ pc = "returned" =>
           /\ events = ExpectedEvents
           /\ Prints = << Printed(mongodump_command),
                          Printed(mongorestore_command),
                          Printed("** Importing from origin **"),
                          Printed("** Exporting to destination **"),
                          Printed("Done!") >>
    /\ DonePrinted => pc = "returned"

C8_Witness ==
    /\ pc = "returned"
    /\ Len(events) = 9
    /\ StartsWith(events[1].text, "mongodump ")
    /\ StartsWith(events[2].text, "mongorestore ")

-----------------------------------------------------------------------------
(* C9 *)

\* C9: a run ends either with one of the four validation errors or, past
\* validation, normally with "Done!"; it ends with no other kind of error.
C9_OnlyValidationErrors ==
    /\ pc = "raised" =>
           error \in {SchemeError, ParsingError, HostsError,
                      PathExistsError(dump_path)}
    /\ pc = "returned" => (error = NoError /\ DonePrinted)

-----------------------------------------------------------------------------
(* C10 *)

\* C10: each tool is launched at most once, and exactly once in a run that
\* returns; a run past validation whose children exit reaches "Done!"; when
\* the dump child never exits the run stays blocked in its wait, the restore
\* is never launched and "Done!" is never printed.
C10_ForwardOnly ==
    /\ [](Len(Launches("mongodump")) <= 1 /\ Len(Launches("mongorestore")) <= 1)
    /\ [](pc = "returned" =>
             /\ Len(Launches("mongodump")) = 1
             /\ Len(Launches("mongorestore")) = 1
             /\ Len(Exits("mongodump")) = 1
             /\ Len(Exits("mongorestore")) = 1)
    /\ (pc = "build") ~>
           (\/ pc = "returned" /\ DonePrinted
            \/ mongodump.state = "blocked"
            \/ mongorestore.state = "blocked")
    /\ [](mongodump.state = "blocked" =>
             /\ pc = "wait_mongodump"
             /\ mongorestore.state = "none"
             /\ ~DonePrinted)
    /\ [][mongodump.state = "blocked" =>
             (mongodump'.state = "blocked" /\ pc' = pc)]_vars

C10_Witness ==
    /\ mongodump.state = "blocked"
    /\ pc = "wait_mongodump"
    /\ Len(Launches("mongodump")) = 1

=============================================================================
